---- MODULE Spec2Model ----
(***************************************************************************)
(* Model of generate_detailed_qa_pairs.py: load_handbook,                  *)
(* extract_flowchart_sections, extract_keywords, generate_qa_pairs, main.   *)
(*                                                                         *)
(* Text is modelled as a sequence of pieces (strings).  A ground-truth      *)
(* text is a sequence of tokens; each token stands for a run of characters  *)
(* that the regular expressions of the script treat as a unit: a            *)
(* <traffic_sign name="..."> tag, a <section title="..."> tag, a word, a    *)
(* whitespace character, a keyword marker, a double-quoted string and the   *)
(* </traffic_sign> close tag.                                               *)
(***************************************************************************)
EXTENDS Integers, Sequences, FiniteSets, TLC

VARIABLES inFile, outFile, prevOut, pc, handbook_data, idx, qa_pairs, prov,
          sampled_keywords, kwi, skipped, result, failedAt

\* inFile            the JSON document at the input path (or its absence)
\* outFile, prevOut  the file at the output path, now and before the run
\* pc                position of main: load, loop, keywords, open, dump, done
\* handbook_data     the list load_handbook returned
\* idx               1-based index of the entry the for loop is at
\* qa_pairs          the accumulated output list
\* prov              history: for each record of qa_pairs, the entry, section or
\*                   keyword position, sample index and template it came from
\* sampled_keywords  positions of the keyword list random.sample selected
\* kwi               index of the next sampled keyword
\* skipped           entries whose processing raised and was skipped
\* result, failedAt  the message main printed and the step that raised
vars == <<inFile, outFile, prevOut, pc, handbook_data, idx, qa_pairs, prov,
          sampled_keywords, kwi, skipped, result, failedAt>>

(***************************** bounds **************************************)
\* longest generated ground-truth text, in tokens
MaxGtLen == 3
\* longest handbook built from the small entries
MaxEntries == 2

(*************************** generic helpers *******************************)
Min(a, b) == IF a < b THEN a ELSE b

RECURSIVE Flatten(_)
Flatten(ss) == IF ss = <<>> THEN <<>> ELSE Head(ss) \o Flatten(Tail(ss))

Range(s) == {s[i] : i \in 1..Len(s)}

\* t occurs in s as a contiguous run of pieces
Contains(s, t) ==
    \E i \in 0..(Len(s) - Len(t)) : SubSeq(s, i + 1, i + Len(t)) = t

(***************************** templates ***********************************)
L(s) == [k |-> "lit", s |-> s]
P(n) == [k |-> "ph", s |-> n]

Sec1Templates ==
    << <<L("What is the immediate action a driver should take when seeing the '"), P("sign"), L("' sign?")>>,
       <<L("When is the '"), P("sign"), L("' sign typically used?")>>,
       <<L("What safety rule does section "), P("section"), L(" enforce in the '"), P("sign"), L("' sign?")>> >>

Sec2Templates ==
    << <<L("What should a driver do at a '"), P("sign"), L("' when there is no stop line?")>>,
       <<L("How does a driver react to a '"), P("sign"), L("' when there's a pedestrian crossing?")>>,
       <<L("What does section "), P("section"), L(" of the '"), P("sign"), L("' sign indicate?")>> >>

Sec3Templates ==
    << <<L("How should the driver behave in construction zones near a '"), P("sign"), L("'?")>>,
       <<L("What does the '"), P("sign"), L("' indicate at a railway crossing?")>>,
       <<L("What special caution is required in section "), P("section"), L(" of the '"), P("sign"), L("' sign?")>> >>

Sec4Templates ==
    << <<L("When is it prohibited to stop near a '"), P("sign"), L("'?")>>,
       <<L("What are unsafe stopping locations for a driver near a '"), P("sign"), L("'?")>>,
       <<L("Why must a driver be extra careful around section "), P("section"), L(" of the '"), P("sign"), L("' sign?")>> >>

\* SECTION_QUESTIONS as an association list: keys "1".."4"
SECTION_QUESTIONS ==
    << [key |-> <<"1">>, val |-> Sec1Templates],
       [key |-> <<"2">>, val |-> Sec2Templates],
       [key |-> <<"3">>, val |-> Sec3Templates],
       [key |-> <<"4">>, val |-> Sec4Templates] >>

GENERIC_SECTION_TEMPLATES ==
    << <<L("What does section "), P("section"), L(" of the '"), P("sign"), L("' sign mean?")>>,
       <<L("Explain the rule under section "), P("section"), L(" for the '"), P("sign"), L("' traffic sign.")>>,
       <<L("How should drivers behave according to section "), P("section"), L(" of the '"), P("sign"), L("' sign?")>> >>

KEYWORD_TEMPLATES ==
    << <<L("How is '"), P("kw"), L("' handled when a driver encounters the '"), P("sign"), L("' sign?")>>,
       <<L("Explain why '"), P("kw"), L("' is important under the '"), P("sign"), L("' sign.")>>,
       <<L("What is the implication of '"), P("kw"), L("' for drivers near the '"), P("sign"), L("' sign?")>>,
       <<L("In what situation does '"), P("kw"), L("' apply under the '"), P("sign"), L("' sign?")>> >>

SCENARIO_TEMPLATES ==
    << <<L("If a driver is near a '"), P("sign"), L("' sign and sees '"), P("kw"), L("', what should they do?")>>,
       <<L("Describe what action should be taken if '"), P("kw"), L("' occurs near a '"), P("sign"), L("' sign.")>>,
       <<L("Why must a driver be cautious of '"), P("kw"), L("' when the '"), P("sign"), L("' sign is present?")>>,
       <<L("What could happen if a driver ignores the '"), P("kw"), L("' instruction under the '"), P("sign"), L("' sign?")>> >>

\* str.format: every placeholder is replaced by the value bound to its name
RECURSIVE Format(_, _)
Format(tpl, bind) ==
    IF tpl = <<>> THEN <<>>
    ELSE (IF Head(tpl).k = "ph" THEN bind[Head(tpl).s] ELSE <<Head(tpl).s>>)
         \o Format(Tail(tpl), bind)

(************************ ground-truth tokens ******************************)
Sign(v)   == [t |-> "sign",   v |-> v]
Sec(v)    == [t |-> "sec",    v |-> v]
Word(w)   == [t |-> "word",   v |-> <<w>>]
Ws(c)     == [t |-> "ws",     v |-> <<c>>]
Mark(m)   == [t |-> "mark",   v |-> <<m>>]
Quoted(v) == [t |-> "quoted", v |-> v]
Close     == [t |-> "close",  v |-> <<"</traffic_sign>">>]

WhiteSpace == {" ", "\n", "\t"}

\* the characters a token stands for
Text(tok) ==
    CASE tok.t = "sign"   -> <<"<traffic_sign name=\"">> \o tok.v \o <<"\">">>
      [] tok.t = "sec"    -> <<"<section title=\"">> \o tok.v \o <<"\">">>
      [] tok.t = "quoted" -> <<"\"">> \o tok.v \o <<"\"">>
      [] OTHER            -> tok.v

RECURSIVE TextOf(_)
TextOf(toks) == IF toks = <<>> THEN <<>> ELSE Text(Head(toks)) \o TextOf(Tail(toks))

\* str.strip()
RECURSIVE LStrip(_)
LStrip(s) == IF s # <<>> /\ Head(s) \in WhiteSpace THEN LStrip(Tail(s)) ELSE s

RECURSIVE RStrip(_)
RStrip(s) ==
    IF s # <<>> /\ s[Len(s)] \in WhiteSpace THEN RStrip(SubSeq(s, 1, Len(s) - 1)) ELSE s

Strip(s) == LStrip(RStrip(s))

\* re.sub(r'\s+', ' ', s)
RECURSIVE CollapseWs(_)
CollapseWs(s) ==
    IF s = <<>> THEN <<>>
    ELSE IF Head(s) \in WhiteSpace
         THEN <<" ">> \o CollapseWs(LStrip(s))
         ELSE <<Head(s)>> \o CollapseWs(Tail(s))

(*************************** extraction ***********************************)
EmptyDict == <<>>

\* faulty variant: a repeated key is appended instead of overwritten in place
DictAppend(d, k, v) == Append(d, [key |-> k, val |-> v])

\* an insertion-ordered dict as a sequence of [key, val]; d[k] = v
DictSet(d, k, v) ==
    IF \E i \in 1..Len(d) : d[i].key = k
    THEN [i \in 1..Len(d) |-> IF d[i].key = k THEN [key |-> k, val |-> v] ELSE d[i]]
    ELSE Append(d, [key |-> k, val |-> v])

DictValues(d) == [i \in 1..Len(d) |-> d[i].val]

\* the spellings the pattern KEY ?WORDS? matches under re.IGNORECASE
KeyWordSpellings == {"KEY WORDS", "Key Words", "KEYWORDS", "KEY WORD"}

\* the lookahead (?=<section title|KEY WORDS|</traffic_sign>) of the section pattern
SectionStop(tok) ==
    \/ tok.t = "sec"
    \/ tok.t = "mark" /\ tok.v = <<"KEY WORDS">>
    \/ tok.t = "close"

\* the first position after p at which the lookahead matches, 0 when there is none
NextStop(gt, p) ==
    IF \E j \in (p + 1)..Len(gt) : SectionStop(gt[j])
    THEN CHOOSE j \in (p + 1)..Len(gt) :
            /\ SectionStop(gt[j])
            /\ \A m \in (p + 1)..(j - 1) : ~SectionStop(gt[m])
    ELSE 0

\* body = re.sub(r'\s+', ' ', match.group(2).strip())
SectionBody(gt, p, q) == CollapseWs(Strip(TextOf(SubSeq(gt, p + 1, q - 1))))

\* the re.finditer loop of extract_flowchart_sections, scanning from position p
RECURSIVE SectionScan(_, _, _)
SectionScan(gt, p, sections) ==
    IF p > Len(gt) THEN sections
    ELSE IF gt[p].t = "sec" /\ NextStop(gt, p) # 0
         THEN SectionScan(gt, NextStop(gt, p),
                          DictSet(sections, Strip(gt[p].v), SectionBody(gt, p, NextStop(gt, p))))
         ELSE SectionScan(gt, p + 1, sections)

SignName(gt) ==
    IF \E i \in 1..Len(gt) : gt[i].t = "sign"
    THEN Strip(gt[CHOOSE i \in 1..Len(gt) :
                     gt[i].t = "sign" /\ \A m \in 1..(i - 1) : gt[m].t # "sign"].v)
    ELSE <<"Unknown">>

extract_flowchart_sections(gt) ==
    [name |-> SignName(gt), sections |-> SectionScan(gt, 1, EmptyDict)]

\* re.search(r'KEY ?WORDS?(.*)', ...): position of the first marker, 0 when absent
KeywordMarkerPos(gt) ==
    IF \E i \in 1..Len(gt) : gt[i].t = "mark" /\ gt[i].v[1] \in KeyWordSpellings
    THEN CHOOSE i \in 1..Len(gt) :
            /\ gt[i].t = "mark" /\ gt[i].v[1] \in KeyWordSpellings
            /\ \A m \in 1..(i - 1) : ~(gt[m].t = "mark" /\ gt[m].v[1] \in KeyWordSpellings)
    ELSE 0

\* re.findall(r'"(.*?)"', kw_section): every double-quoted run, tag attributes included
RECURSIVE QuotedRuns(_)
QuotedRuns(toks) ==
    IF toks = <<>> THEN <<>>
    ELSE (IF Head(toks).t \in {"quoted", "sign", "sec"} THEN <<Head(toks).v>> ELSE <<>>)
         \o QuotedRuns(Tail(toks))

extract_keywords(gt) ==
    IF KeywordMarkerPos(gt) # 0
    THEN QuotedRuns(SubSeq(gt, KeywordMarkerPos(gt) + 1, Len(gt)))
    ELSE <<>>

(****************************** inputs *************************************)
\* A JSON element of the top-level array.  keys: for an object its keys, for an
\* array its members, for a string its substrings, among "image"/"ground_truth".
\* gt.isstr tells whether the ground_truth value is a JSON string.
Elem(type, keys, image, isstr, toks) ==
    [type |-> type, keys |-> keys, image |-> image, gt |-> [isstr |-> isstr, toks |-> toks]]

Entry(image, toks) == Elem("object", {"image", "ground_truth"}, image, TRUE, toks)

Images == {"a.png", "b.png"}

\* two sections with whitespace to collapse, no keywords
GtStop ==
    << Sign(<<" ", "Stop", " ">>), Ws("\n"), Sec(<<"1">>), Ws(" "), Word("halt"), Ws(" "), Ws("\n"),
       Word("fully"), Ws("\n"), Sec(<<"2">>), Word("yield"), Close >>

\* no sign tag, one section with a free-form identifier, two keywords
GtFive ==
    << Sec(<<"5">>), Word("slow"), Mark("KEY WORDS"), Quoted(<<"K1">>), Quoted(<<"K2">>), Close >>

\* no sections, two keywords after a lower-case marker
GtKwOnly ==
    << Sign(<<"Stop">>), Mark("Key Words"), Quoted(<<"K1">>), Quoted(<<"K2">>) >>

\* sections out of numeric order, two keywords
GtYield ==
    << Sign(<<"Yield">>), Sec(<<"3">>), Word("slow"), Sec(<<"1">>), Word("look"),
       Mark("KEY WORDS"), Quoted(<<"K1">>), Quoted(<<"K2">>), Close >>

\* a section title that appears twice
GtDup ==
    << Sign(<<"No", " ", "Entry">>), Sec(<<"3">>), Word("a"), Sec(<<"4">>), Word("b"),
       Sec(<<" ", "3">>), Word("c"), Mark("KEY WORDS"), Quoted(<<"K1">>), Close >>

\* six keywords, one repeated
GtSix ==
    << Sign(<<"Stop">>), Sec(<<"1">>), Word("halt"), Mark("KEY WORDS"),
       Quoted(<<"K1">>), Quoted(<<"K2">>), Quoted(<<"K3">>), Quoted(<<"K4">>),
       Quoted(<<"K5">>), Quoted(<<"K1">>), Close >>

Alphabet ==
    { Sec(<<"1">>), Sec(<<"5">>), Word("w"), Ws(" "), Mark("KEY WORDS"), Mark("Key Words"),
      Quoted(<<"K1">>), Close }

GeneratedGts == UNION {[1..n -> Alphabet] : n \in 0..MaxGtLen}

SmallElems ==
    {Entry(img, g) : img \in Images, g \in {GtStop, GtFive, GtKwOnly}}
    \cup {Elem("object", {"image", "ground_truth"}, img, FALSE, <<>>) : img \in Images}
    \cup { Elem("object", {"image"}, "a.png", TRUE, <<>>),
           Elem("array", {"image", "ground_truth"}, "", TRUE, <<>>),
           Elem("number", {}, "", TRUE, <<>>) }

Handbooks ==
    UNION {[1..n -> SmallElems] : n \in 0..MaxEntries}
    \cup {<<Entry("a.png", g)>> : g \in {GtYield, GtDup, GtSix} \cup GeneratedGts}

InFiles ==
    { [state |-> "missing", type |-> "none", elems |-> <<>>],
      [state |-> "malformed", type |-> "none", elems |-> <<>>],
      [state |-> "ok", type |-> "object", elems |-> <<>>] }
    \cup {[state |-> "ok", type |-> "array", elems |-> h] : h \in Handbooks}

OldRecord == [image |-> "old.png", question |-> <<"old">>, answer |-> <<"old">>]

OutFiles == { [exists |-> FALSE, content |-> <<>>], [exists |-> TRUE, content |-> <<OldRecord>>] }

(****************************** loader *************************************)
\* `key in entry` raises TypeError for a number
InRaises(e) == e.type = "number"

HasKey(e, k) == k \in e.keys

\* load_handbook raises: open()/json.load fail, the isinstance check, the field check
LoadRaises(f) ==
    \/ f.state # "ok"
    \/ f.type # "array"
    \/ \E i \in 1..Len(f.elems) :
          \/ InRaises(f.elems[i])
          \/ ~HasKey(f.elems[i], "image")
          \/ ~HasKey(f.elems[i], "ground_truth")

\* entry["image"] / entry["ground_truth"] raise unless entry is a dict with the key
SubscriptRaises(e, k) == e.type # "object" \/ k \notin e.keys

(***************************** expander ************************************)
\* min(len(keywords), 5)
SampleMax == 5

\* faulty variant: the sample is not capped
SampleAll(n) == n

SampleSize(n) == Min(n, SampleMax)

\* random.sample(population, k): k distinct positions of the population, in any order
Samples(n, k) ==
    {s \in [1..k -> 1..n] : \A a, b \in 1..k : a # b => s[a] # s[b]}

\* faulty variant: the lookup always misses
TemplatesForGeneric(section_no) == GENERIC_SECTION_TEMPLATES

\* SECTION_QUESTIONS.get(section_no, GENERIC_SECTION_TEMPLATES)
TemplatesFor(section_no) ==
    IF \E i \in 1..Len(SECTION_QUESTIONS) : SECTION_QUESTIONS[i].key = section_no
    THEN SECTION_QUESTIONS[CHOOSE i \in 1..Len(SECTION_QUESTIONS) :
                              SECTION_QUESTIONS[i].key = section_no].val
    ELSE GENERIC_SECTION_TEMPLATES

\* faulty variant: the scenario templates are left out
KeywordTemplatesOnly == KEYWORD_TEMPLATES

\* KEYWORD_TEMPLATES + SCENARIO_TEMPLATES
KeywordQuestionTemplates == KEYWORD_TEMPLATES \o SCENARIO_TEMPLATES

NoSectionFallback == <<"Refer to sign rules.">>

\* faulty variant: the image is read once, from the first entry
EntryImageFirst(data, i) == data[1].image

\* img_path = entry["image"]
EntryImage(data, i) == data[i].image

\* gt = entry["ground_truth"], when it is a string
EntryGt(data, i) == data[i].gt.toks

SectionQuestion(q_template, sign_name, section_no) ==
    Format(q_template, [sign |-> sign_name, section |-> section_no])

KeywordQuestion(kw_q_template, kw, sign_name) ==
    Format(kw_q_template, [kw |-> kw, sign |-> sign_name])

KeywordAnswer(sign_name, kw, chosen_section) ==
    <<"In the context of the '">> \o sign_name \o <<"' sign, the keyword '">> \o kw
        \o <<"' relates to: ">> \o chosen_section

\* the records the section loop appends for one entry, in order
SectionRecords(img_path, sign_name, sections) ==
    Flatten([n \in 1..Len(sections) |->
        [j \in 1..Len(TemplatesFor(sections[n].key)) |->
            [image    |-> img_path,
             question |-> SectionQuestion(TemplatesFor(sections[n].key)[j], sign_name, sections[n].key),
             answer   |-> sections[n].val]]])

\* where each of these records comes from (history only)
SectionProv(i, sections) ==
    Flatten([n \in 1..Len(sections) |->
        [j \in 1..Len(TemplatesFor(sections[n].key)) |->
            [entry |-> i, kind |-> "section", key |-> sections[n].key, pos |-> 0, smp |-> 0, tmpl |-> j]]])

\* the candidates of random.choice(list(sections.values())), or the fallback
BodyChoices(sections) ==
    IF sections # EmptyDict THEN Range(DictValues(sections)) ELSE {NoSectionFallback}

(******************************* main **************************************)
Init ==
    /\ inFile \in InFiles
    /\ outFile \in OutFiles
    /\ prevOut = outFile
    /\ pc = "load"
    /\ handbook_data = <<>>
    /\ idx = 1
    /\ qa_pairs = <<>>
    /\ prov = <<>>
    /\ sampled_keywords = <<>>
    /\ kwi = 1
    /\ skipped = {}
    /\ result = "none"
    /\ failedAt = "none"

\* the except branch of main: print the error, return
TopLevelFail(stage) ==
    /\ pc' = "done"
    /\ result' = "error"
    /\ failedAt' = stage

\* faulty variant: the output file is opened for writing before the input is loaded
LoadFailTruncating ==
    /\ pc = "load"
    /\ LoadRaises(inFile)
    /\ outFile' = [exists |-> TRUE, content |-> <<>>]
    /\ TopLevelFail("load")
    /\ UNCHANGED <<inFile, prevOut, handbook_data, idx, qa_pairs, prov,
                   sampled_keywords, kwi, skipped>>

\* load_handbook raises
LoadFail ==
    /\ pc = "load"
    /\ LoadRaises(inFile)
    /\ TopLevelFail("load")
    /\ UNCHANGED <<inFile, outFile, prevOut, handbook_data, idx, qa_pairs, prov,
                   sampled_keywords, kwi, skipped>>

\* load_handbook returns data; generate_qa_pairs starts with an empty list
LoadOk ==
    /\ pc = "load"
    /\ ~LoadRaises(inFile)
    /\ handbook_data' = inFile.elems
    /\ qa_pairs' = <<>>
    /\ idx' = 1
    /\ pc' = "loop"
    /\ UNCHANGED <<inFile, outFile, prevOut, prov, sampled_keywords, kwi, skipped,
                   result, failedAt>>

\* entry["image"] or entry["ground_truth"] raises, outside the try of the loop
EntryFieldError ==
    /\ pc = "loop"
    /\ idx <= Len(handbook_data)
    /\ \/ SubscriptRaises(handbook_data[idx], "image")
       \/ SubscriptRaises(handbook_data[idx], "ground_truth")
    /\ TopLevelFail("generate")
    /\ UNCHANGED <<inFile, outFile, prevOut, handbook_data, idx, qa_pairs, prov,
                   sampled_keywords, kwi, skipped>>

EntryReadable ==
    /\ pc = "loop"
    /\ idx <= Len(handbook_data)
    /\ ~SubscriptRaises(handbook_data[idx], "image")
    /\ ~SubscriptRaises(handbook_data[idx], "ground_truth")

\* faulty variant: the except branch leaves the loop (break instead of continue)
EntrySkipBreak ==
    /\ EntryReadable
    /\ ~handbook_data[idx].gt.isstr
    /\ skipped' = skipped \cup {idx}
    /\ idx' = Len(handbook_data) + 1
    /\ UNCHANGED <<inFile, outFile, prevOut, pc, handbook_data, qa_pairs, prov,
                   sampled_keywords, kwi, result, failedAt>>

\* re.search raises TypeError on a ground_truth that is no string: except, continue
EntrySkip ==
    /\ EntryReadable
    /\ ~handbook_data[idx].gt.isstr
    /\ skipped' = skipped \cup {idx}
    /\ idx' = idx + 1
    /\ UNCHANGED <<inFile, outFile, prevOut, pc, handbook_data, qa_pairs, prov,
                   sampled_keywords, kwi, result, failedAt>>

\* extraction, the section loop and random.sample for one entry
EntrySections ==
    /\ EntryReadable
    /\ handbook_data[idx].gt.isstr
    /\ LET ex       == extract_flowchart_sections(EntryGt(handbook_data, idx))
           keywords == extract_keywords(EntryGt(handbook_data, idx))
       IN /\ qa_pairs' = qa_pairs \o SectionRecords(EntryImage(handbook_data, idx), ex.name, ex.sections)
          /\ prov' = prov \o SectionProv(idx, ex.sections)
          /\ sampled_keywords' \in Samples(Len(keywords), SampleSize(Len(keywords)))
    /\ kwi' = 1
    /\ pc' = "keywords"
    /\ UNCHANGED <<inFile, outFile, prevOut, handbook_data, idx, skipped, result, failedAt>>

\* faulty variant: random.choice is drawn inside the template loop
KeywordStepFreshChoice ==
    /\ pc = "keywords"
    /\ kwi <= Len(sampled_keywords)
    /\ LET ex  == extract_flowchart_sections(EntryGt(handbook_data, idx))
           kw  == extract_keywords(EntryGt(handbook_data, idx))[sampled_keywords[kwi]]
           img == EntryImage(handbook_data, idx)
       IN \E chosen \in [1..Len(KeywordQuestionTemplates) -> BodyChoices(ex.sections)] :
            /\ qa_pairs' = qa_pairs \o
                  [j \in 1..Len(KeywordQuestionTemplates) |->
                      [image    |-> img,
                       question |-> KeywordQuestion(KeywordQuestionTemplates[j], kw, ex.name),
                       answer   |-> KeywordAnswer(ex.name, kw, chosen[j])]]
            /\ prov' = prov \o
                  [j \in 1..Len(KeywordQuestionTemplates) |->
                      [entry |-> idx, kind |-> "keyword", key |-> <<>>,
                       pos |-> sampled_keywords[kwi], smp |-> kwi, tmpl |-> j]]
    /\ kwi' = kwi + 1
    /\ UNCHANGED <<inFile, outFile, prevOut, pc, handbook_data, idx, sampled_keywords,
                   skipped, result, failedAt>>

\* one iteration of `for kw in sampled_keywords`
KeywordStep ==
    /\ pc = "keywords"
    /\ kwi <= Len(sampled_keywords)
    /\ LET ex  == extract_flowchart_sections(EntryGt(handbook_data, idx))
           kw  == extract_keywords(EntryGt(handbook_data, idx))[sampled_keywords[kwi]]
           img == EntryImage(handbook_data, idx)
       IN \E chosen_section \in BodyChoices(ex.sections) :
            /\ qa_pairs' = qa_pairs \o
                  [j \in 1..Len(KeywordQuestionTemplates) |->
                      [image    |-> img,
                       question |-> KeywordQuestion(KeywordQuestionTemplates[j], kw, ex.name),
                       answer   |-> KeywordAnswer(ex.name, kw, chosen_section)]]
            /\ prov' = prov \o
                  [j \in 1..Len(KeywordQuestionTemplates) |->
                      [entry |-> idx, kind |-> "keyword", key |-> <<>>,
                       pos |-> sampled_keywords[kwi], smp |-> kwi, tmpl |-> j]]
    /\ kwi' = kwi + 1
    /\ UNCHANGED <<inFile, outFile, prevOut, pc, handbook_data, idx, sampled_keywords,
                   skipped, result, failedAt>>

\* the keyword loop is exhausted: next entry
EntryDone ==
    /\ pc = "keywords"
    /\ kwi > Len(sampled_keywords)
    /\ idx' = idx + 1
    /\ pc' = "loop"
    /\ UNCHANGED <<inFile, outFile, prevOut, handbook_data, qa_pairs, prov,
                   sampled_keywords, kwi, skipped, result, failedAt>>

\* generate_qa_pairs returns
LoopDone ==
    /\ pc = "loop"
    /\ idx > Len(handbook_data)
    /\ pc' = "open"
    /\ UNCHANGED <<inFile, outFile, prevOut, handbook_data, idx, qa_pairs, prov,
                   sampled_keywords, kwi, skipped, result, failedAt>>

\* open(path, "w") succeeds: the file exists and is empty
OpenOk ==
    /\ pc = "open"
    /\ outFile' = [exists |-> TRUE, content |-> <<>>]
    /\ pc' = "dump"
    /\ UNCHANGED <<inFile, prevOut, handbook_data, idx, qa_pairs, prov,
                   sampled_keywords, kwi, skipped, result, failedAt>>

\* open(path, "w") raises OSError
OpenFail ==
    /\ pc = "open"
    /\ TopLevelFail("open")
    /\ UNCHANGED <<inFile, outFile, prevOut, handbook_data, idx, qa_pairs, prov,
                   sampled_keywords, kwi, skipped>>

\* json.dump writes every record; the file is closed; the summary is printed
DumpOk ==
    /\ pc = "dump"
    /\ outFile' = [exists |-> TRUE, content |-> qa_pairs]
    /\ pc' = "done"
    /\ result' = "success"
    /\ UNCHANGED <<inFile, prevOut, handbook_data, idx, qa_pairs, prov,
                   sampled_keywords, kwi, skipped, failedAt>>

\* How much of n records can have reached the file when a write fails: any proper
\* prefix; represented by the two extremes, nothing and all but the last record.
PartialLengths(n) == {0} \cup (IF n > 0 THEN {n - 1} ELSE {})

\* a write of json.dump raises OSError after part of the output reached the file
DumpFail ==
    /\ pc = "dump"
    /\ \E n \in PartialLengths(Len(qa_pairs)) :
          outFile' = [exists |-> TRUE, content |-> SubSeq(qa_pairs, 1, n)]
    /\ TopLevelFail("dump")
    /\ UNCHANGED <<inFile, prevOut, handbook_data, idx, qa_pairs, prov,
                   sampled_keywords, kwi, skipped>>

Next ==
    \/ LoadFail
    \/ LoadOk
    \/ EntryFieldError
    \/ EntrySkip
    \/ EntrySections
    \/ KeywordStep
    \/ EntryDone
    \/ LoopDone
    \/ OpenOk
    \/ OpenFail
    \/ DumpOk
    \/ DumpFail

Spec == Init /\ [][Next]_vars

(*********************** vocabulary of the properties ***********************)
\* the records of qa_pairs whose history satisfies Test, in list order
RecordsWhere(Test(_)) ==
    LET ix == SelectSeq([n \in 1..Len(prov) |-> n], LAMBDA n : Test(prov[n]))
    IN  [k \in 1..Len(ix) |-> qa_pairs[ix[k]]]

GtOf(i) == handbook_data[i].gt.toks
SectionsOf(i) == extract_flowchart_sections(GtOf(i)).sections
SignOf(i) == extract_flowchart_sections(GtOf(i)).name
KeywordsOf(i) == extract_keywords(GtOf(i))

\* entries the loop has left behind
Finished(i) == i \in 1..Len(handbook_data) /\ i < idx

\* entries whose section loop has run
Expanded(i) ==
    /\ i \in 1..Len(handbook_data)
    /\ i \notin skipped
    /\ i < idx \/ (i = idx /\ pc = "keywords")

GenerationReturned ==
    pc \in {"open", "dump"} \/ (pc = "done" /\ failedAt \in {"none", "open", "dump"})

\* the template set the documentation fixes for a section identifier
FixedSetFor(id) ==
    CASE id = <<"1">> -> Sec1Templates
      [] id = <<"2">> -> Sec2Templates
      [] id = <<"3">> -> Sec3Templates
      [] id = <<"4">> -> Sec4Templates
      [] OTHER        -> GENERIC_SECTION_TEMPLATES

\* position of the first section tag of the raw text whose title is id
FirstAppearance(gt, id) ==
    CHOOSE p \in 1..Len(gt) :
        /\ gt[p].t = "sec" /\ Strip(gt[p].v) = id
        /\ \A m \in 1..(p - 1) : ~(gt[m].t = "sec" /\ Strip(gt[m].v) = id)

(******************************* claims ************************************)
\* C1: an exception while extracting or expanding an entry skips that entry only:
\* no record of the list comes from a skipped entry, exactly the failing entries
\* are skipped, and once generate_qa_pairs has returned every other entry has all
\* of its records (its section records in order, and its keyword records).
C1_FailedEntrySkippedOnly ==
    /\ \A n \in 1..Len(prov) : prov[n].entry \notin skipped
    /\ \A i \in skipped : ~handbook_data[i].gt.isstr
    /\ GenerationReturned =>
          /\ skipped = {i \in 1..Len(handbook_data) : ~handbook_data[i].gt.isstr}
          /\ \A i \in (1..Len(handbook_data)) \ skipped :
                /\ RecordsWhere(LAMBDA h : h.entry = i /\ h.kind = "section")
                     = SectionRecords(handbook_data[i].image, SignOf(i), SectionsOf(i))
                /\ Len(RecordsWhere(LAMBDA h : h.entry = i /\ h.kind = "keyword"))
                     = Len(KEYWORD_TEMPLATES \o SCENARIO_TEMPLATES)
                         * (IF Len(KeywordsOf(i)) < 5 THEN Len(KeywordsOf(i)) ELSE 5)

\* an entry was skipped and a later entry was expanded after it; the run succeeded
C1_Witness ==
    /\ pc = "done" /\ result = "success"
    /\ \E i \in skipped : \E n \in 1..Len(prov) : prov[n].entry > i

\* C2: at every point of the run every record of the list carries the image of
\* the entry it was generated from.
C2_ImageOfSourceEntry ==
    /\ Len(prov) = Len(qa_pairs)
    /\ \A n \in 1..Len(qa_pairs) : qa_pairs[n].image = handbook_data[prov[n].entry].image

\* records of two entries with different images, section-based and keyword-based
C2_Witness ==
    \E m, n \in 1..Len(prov) :
        /\ prov[m].entry # prov[n].entry
        /\ handbook_data[prov[m].entry].image # handbook_data[prov[n].entry].image
        /\ prov[m].kind = "section" /\ prov[n].kind = "keyword"

\* C3: every section of an expanded entry has exactly one record per template of
\* its set (3 records): the set fixed for the identifier when it is "1".."4", the
\* generic set otherwise; the question is the template with sign name and
\* identifier substituted, the answer is the section body.
C3_SectionRecords ==
    \A i \in 1..Len(handbook_data) : Expanded(i) =>
        \A n \in 1..Len(SectionsOf(i)) :
            LET id   == SectionsOf(i)[n].key
                recs == RecordsWhere(LAMBDA h : h.entry = i /\ h.kind = "section" /\ h.key = id)
            IN /\ Len(recs) = 3
               /\ Len(FixedSetFor(id)) = 3
               /\ \A j \in 1..3 :
                     /\ recs[j].question
                          = Format(FixedSetFor(id)[j], [sign |-> SignOf(i), section |-> id])
                     /\ recs[j].answer = SectionsOf(i)[n].val

\* one section answered from its fixed set and one from the generic set
C3_Witness ==
    \E m, n \in 1..Len(prov) :
        /\ prov[m].kind = "section" /\ prov[m].key = <<"1">>
        /\ prov[n].kind = "section" /\ prov[n].key = <<"5">>
        /\ qa_pairs[m].answer # <<>>

\* the records of each sampled keyword: count of them, one per template of the
\* combined list, each answer containing the sign name and the keyword
KeywordGroupsHave(count) ==
    \A i \in 1..Len(handbook_data) : Expanded(i) =>
        LET kws  == KeywordsOf(i)
            sign == SignOf(i)
            all  == KEYWORD_TEMPLATES \o SCENARIO_TEMPLATES
            mine == {n \in 1..Len(prov) : prov[n].entry = i /\ prov[n].kind = "keyword"}
        IN \A n \in mine :
              /\ Cardinality({m \in mine : prov[m].smp = prov[n].smp}) = count
              /\ {prov[m].tmpl : m \in {m \in mine : prov[m].smp = prov[n].smp}} = 1..count
              /\ Len(all) = count
              /\ prov[n].tmpl <= Len(all)
              /\ qa_pairs[n].question
                   = Format(all[prov[n].tmpl], [kw |-> kws[prov[n].pos], sign |-> sign])
              /\ Contains(qa_pairs[n].answer, sign)
              /\ Contains(qa_pairs[n].answer, kws[prov[n].pos])

\* C4 as stated: each sampled keyword yields exactly 9 records, one per template
\* of the combined list of 9, each answer containing sign name and keyword.
C4_NineRecordsPerKeyword == KeywordGroupsHave(9)

\* C4 as amended: each sampled keyword yields exactly 8 records, one per template
\* of the combined list (4 keyword + 4 scenario templates), each answer
\* containing the sign name and the keyword.
C4_EightRecordsPerKeyword == KeywordGroupsHave(8)

\* a keyword group of an entry with a sign name and a non-empty keyword
C4_Witness ==
    \E n \in 1..Len(prov) :
        /\ prov[n].kind = "keyword" /\ prov[n].tmpl = 8
        /\ SignOf(prov[n].entry) = <<"Stop">>
        /\ KeywordsOf(prov[n].entry)[prov[n].pos] = <<"K2">>

\* C5: an entry with n extracted keywords gets keyword records for exactly
\* min(n, 5) keywords, drawn from distinct positions of the list, each used
\* keyword being the element at its position; with n = 0 the entry has no
\* keyword record and exactly 3 records per section.
C5_SampleWithoutReplacement ==
    \A i \in 1..Len(handbook_data) : (Finished(i) /\ i \notin skipped) =>
        LET kws    == KeywordsOf(i)
            n      == Len(kws)
            mine   == {m \in 1..Len(prov) : prov[m].entry = i /\ prov[m].kind = "keyword"}
            groups == {prov[m].smp : m \in mine}
        IN /\ Cardinality(groups) = (IF n < 5 THEN n ELSE 5)
           /\ \A a, b \in mine : (prov[a].smp = prov[b].smp) <=> (prov[a].pos = prov[b].pos)
           /\ \A a \in mine :
                 /\ prov[a].pos \in 1..n
                 /\ qa_pairs[a].question
                      = Format((KEYWORD_TEMPLATES \o SCENARIO_TEMPLATES)[prov[a].tmpl],
                               [kw |-> kws[prov[a].pos], sign |-> SignOf(i)])
           /\ n = 0 =>
                 /\ mine = {}
                 /\ Cardinality({m \in 1..Len(prov) : prov[m].entry = i})
                      = 3 * Len(SectionsOf(i))

\* an entry with six keywords is finished, five of them used
C5_Witness ==
    \E i \in 1..Len(handbook_data) :
        /\ Finished(i) /\ i \notin skipped
        /\ Len(KeywordsOf(i)) = 6
        /\ Cardinality({prov[m].pos : m \in {m \in 1..Len(prov) : prov[m].entry = i /\ prov[m].kind = "keyword"}}) = 5

\* the order of the list up to the keyword records: entries in input order, in
\* an entry the section records first, grouped by section in the order of the
\* first appearance of the section's title in the raw text
OrderedByEntryAndSection ==
    \A m, n \in 1..Len(prov) : m < n =>
        /\ prov[m].entry <= prov[n].entry
        /\ prov[m].entry = prov[n].entry =>
              /\ prov[n].kind = "section" => prov[m].kind = "section"
              /\ (prov[m].kind = "section" /\ prov[n].kind = "section") =>
                    FirstAppearance(GtOf(prov[m].entry), prov[m].key)
                        <= FirstAppearance(GtOf(prov[n].entry), prov[n].key)

SameEntryKeywordRecords(m, n) ==
    /\ prov[m].entry = prov[n].entry
    /\ prov[m].kind = "keyword" /\ prov[n].kind = "keyword"

\* C6 as stated: ... and the keyword records are grouped by keyword in the order
\* of the keywords in the extracted (left-to-right) keyword list.
C6_KeywordsInListOrder ==
    /\ OrderedByEntryAndSection
    /\ \A m, n \in 1..Len(prov) :
          (m < n /\ SameEntryKeywordRecords(m, n)) => prov[m].pos <= prov[n].pos

\* C6 as amended: ... and the keyword records are grouped by sampled keyword in
\* the order in which random.sample returned the keywords.
C6_KeywordsInSampleOrder ==
    /\ OrderedByEntryAndSection
    /\ \A m, n \in 1..Len(prov) :
          (m < n /\ SameEntryKeywordRecords(m, n)) =>
              /\ prov[m].smp <= prov[n].smp
              /\ prov[m].smp = prov[n].smp => prov[m].tmpl < prov[n].tmpl

\* a finished list of two entries: section records of the first, and keyword
\* records of the second whose second sampled keyword is the first of its list
C6_Witness ==
    /\ GenerationReturned
    /\ \E m, n \in 1..Len(prov) :
          /\ m < n /\ prov[m].entry < prov[n].entry
          /\ prov[m].kind = "section" /\ prov[m].key = <<"2">>
          /\ prov[n].kind = "keyword" /\ prov[n].smp = 2 /\ prov[n].pos = 1

\* C7: load_handbook fails whenever the top-level value is no array or an element
\* is not an object with both fields, and otherwise returns the elements
\* unchanged; so generate_qa_pairs never fails reading the fields of an entry.
WellFormedInput ==
    /\ inFile.state = "ok"
    /\ inFile.type = "array"
    /\ \A i \in 1..Len(inFile.elems) :
          /\ inFile.elems[i].type = "object"
          /\ {"image", "ground_truth"} \subseteq inFile.elems[i].keys

C7_LoaderValidatesEntries ==
    /\ (pc # "load" /\ failedAt # "load") => (WellFormedInput /\ handbook_data = inFile.elems)
    /\ failedAt = "load" => ~WellFormedInput
    /\ failedAt # "generate"

\* C8 as stated: a run that ends in a top-level failure has reported it and
\* returned, and the output file is as it was before the run.
C8_FailureLeavesOutputUntouched ==
    (pc = "done" /\ failedAt # "none") => (result = "error" /\ outFile = prevOut)

\* C8 as amended: a run that ends in a top-level failure raised before the output
\* file was opened for writing (by load_handbook, by generate_qa_pairs or by
\* open itself) has reported it and returned, and the output file is as it was
\* before the run.
C8_FailureBeforeOpenLeavesOutputUntouched ==
    (pc = "done" /\ failedAt \in {"load", "generate", "open"}) =>
        (result = "error" /\ outFile = prevOut)

\* a run over an existing output file failed while loading
C8_Witness ==
    /\ pc = "done" /\ failedAt = "load" /\ result = "error"
    /\ prevOut.exists /\ outFile.content = <<OldRecord>>

\* C9: the records of one sampled keyword all have the same answer, and it embeds
\* one of the entry's section bodies, or the fallback when there is no section.
C9_OneBodyPerKeyword ==
    \A i \in 1..Len(handbook_data) : Expanded(i) =>
        LET kws    == KeywordsOf(i)
            sign   == SignOf(i)
            bodies == IF Len(SectionsOf(i)) > 0
                      THEN {SectionsOf(i)[k].val : k \in 1..Len(SectionsOf(i))}
                      ELSE {<<"Refer to sign rules.">>}
            mine   == {m \in 1..Len(prov) : prov[m].entry = i /\ prov[m].kind = "keyword"}
        IN \A a \in mine :
              /\ \A b \in mine :
                    prov[a].smp = prov[b].smp => qa_pairs[a].answer = qa_pairs[b].answer
              /\ \E body \in bodies :
                    qa_pairs[a].answer
                      = <<"In the context of the '">> \o sign \o <<"' sign, the keyword '">>
                          \o kws[prov[a].pos] \o <<"' relates to: ">> \o body

\* keyword records of an entry that has two different section bodies
C9_Witness ==
    \E n \in 1..Len(prov) :
        /\ prov[n].kind = "keyword" /\ prov[n].tmpl = 8
        /\ Cardinality({SectionsOf(prov[n].entry)[k].val : k \in 1..Len(SectionsOf(prov[n].entry))}) = 2

\* C10: a section body ends at the next section tag, at a keyword marker in any
\* spelling extract_keywords recognises, or at the close tag: no body contains a
\* keyword marker, and every section tag of the text that is followed by one of
\* these three yields a section.
C10_BodyStopsAtKeywordMarker ==
    \A i \in 1..Len(handbook_data) : Expanded(i) =>
        /\ \A k \in 1..Len(SectionsOf(i)) :
              \A sp \in KeyWordSpellings : ~Contains(SectionsOf(i)[k].val, <<sp>>)
        /\ \A p \in 1..Len(GtOf(i)) :
              (/\ GtOf(i)[p].t = "sec"
               /\ \E q \in (p + 1)..Len(GtOf(i)) : GtOf(i)[q].t \in {"sec", "mark", "close"})
              => \E k \in 1..Len(SectionsOf(i)) : SectionsOf(i)[k].key = Strip(GtOf(i)[p].v)

====
